---- MODULE Spec2Model ----
(***************************************************************************)
(* A model of the versionwatch collection pipeline:                        *)
(*   - the collection cycle of versionwatch-cli (main.rs): collector       *)
(*     construction, concurrent collect() tasks, join, union, cleaning     *)
(*     and the upsert loop;                                                *)
(*   - the provider fallback of the MySQL, Kong and Swift collectors;      *)
(*   - the paged fetch of the GitHub collector and the page loop of the    *)
(*     Eclipse Temurin collector;                                          *)
(*   - the version cleaning of the GitHub collector;                       *)
(*   - the upserts of versionwatch-db;                                     *)
(*   - one collect() of the Apache collector and of the Ruby collector;    *)
(*   - the tag lookups of the Eclipse Temurin collector;                   *)
(*   - the cleaning pass of main on a frame with LTS versions.             *)
(* Each part has its own specification over the shared variables; the      *)
(* variables of the other parts stay idle.                                 *)
(***************************************************************************)
EXTENDS Integers, Sequences, FiniteSets, Bags, TLC

VARIABLES
    \* ---- the collection cycle (versionwatch-cli/src/main.rs) ----
    config,          \* config.targets: the sequence of Target descriptors
    pc,              \* position of main: "start", "await", "persist", "done"
    collectors,      \* the Vec of collectors main built
    task,            \* one spawned task per collector: its state and result
    calls,           \* how many times collect() was invoked per collector
    joined,          \* number of handles main has awaited
    all_dataframes,  \* Vec<DataFrame> of the successful collectors
    failed_targets,  \* Vec<String> of failed names
    cleaned_df,      \* the cleaned union handed to the upsert loop
    row,             \* number of rows of cleaned_df already upserted
    upserts,         \* the upsert_version calls made: the record and whether it succeeded
    db,              \* the rows of the store, keyed by name
    exit,            \* what main returned: "none", "ok", "err"
    warned,          \* whether the final "collectors failed" warning was logged
    \* ---- one collect() of a collector with a provider fallback ----
    fb_kind,         \* which collector runs: "mysql", "kong", "swift"
    fb_pc,           \* the request collect() is about to send, or "done"
    fb_log,          \* the requests sent so far, each with the response it got
    fb_result,       \* what collect() returned
    \* ---- one paged fetch: GitHubCollector::fetch or the Temurin page loop ----
    pg_kind,         \* "github", "temurin" or "nginx"
    pg_pc,           \* "loop", "lookup" (Temurin, after its loop) or "done"
    next_url,        \* github.rs: whether next_url is Some
    page_count,      \* github.rs: page_count; eclipse_temurin.rs: page
    results,         \* github.rs: results; eclipse_temurin.rs: all_versions
    pg_requests,     \* number of page requests sent
    served,          \* the successful page responses: item count and next link
    pg_result,       \* what the fetch returned
    pg_status,       \* github.rs: the status of the last response, 0 for none
    pg_hdr,          \* the x-ratelimit-* headers of the last response
    \* ---- one collect() of the GitHub collector (github.rs) ----
    nm_source,       \* self.source: "releases", "tags" or something else
    cleaning,        \* self.cleaning: trim_prefix and trim_suffix (<<>> for None)
    nm_fetched,      \* what self.fetch returned: the releases or tags, or an error
    nm_pc,           \* "start" or "done"
    nm_result,       \* what collect() returned
    \* ---- the store (versionwatch-db/src/lib.rs) ----
    products,        \* the rows of table products, in insertion order
    cycles,          \* the rows of table cycles, in insertion order
    db_now,          \* the clock NOW() reads
    db_call,         \* the last upsert call: operation, arguments, result
    db_once,         \* the tables as they were before the last call
    db_repeat,       \* the last call repeated the successful call before it
    db_calls,        \* number of upsert calls made
    \* ---- one collect() of the Apache collector (apache.rs) ----
    ap_body,         \* the httpd-X.Y.Z.tar.gz names on the download page, in order
    ap_pc,           \* "start", "fetched" or "done"
    ap_result,       \* what collect() returned
    \* ---- one collect() of the Ruby collector (ruby.rs) ----
    rb_releases,     \* the releases the GitHub API lists, in order
    rb_pc,           \* "start" or "done"
    rb_result,       \* what collect() returned
    \* ---- the tag lookups of the Temurin collector (eclipse_temurin.rs) ----
    fo_versions,     \* all_versions: the versions the pages listed
    fo_next,         \* number of versions taken from the stream
    fo_inflight,     \* the versions whose lookup is in flight
    fo_cycles,       \* the cycles emitted so far, as a bag
    fo_pc,           \* "fanout" or "done"
    fo_result,       \* what collect() returned
    \* ---- the cleaning pass of main (main.rs 118-140) ----
    cl_df,           \* final_df: the frame the pass is given
    cl_pc,           \* "start" or "done"
    cl_out           \* cleaned_df

cycleVars == <<config, pc, collectors, task, calls, joined, all_dataframes,
               failed_targets, cleaned_df, row, upserts, db, exit, warned>>

fbVars == <<fb_kind, fb_pc, fb_log, fb_result>>

pgVars == <<pg_kind, pg_pc, next_url, page_count, results, pg_requests,
            served, pg_result, pg_status, pg_hdr>>

nmVars == <<nm_source, cleaning, nm_fetched, nm_pc, nm_result>>

dbVars == <<products, cycles, db_now, db_call, db_once, db_repeat, db_calls>>

apVars == <<ap_body, ap_pc, ap_result>>

rbVars == <<rb_releases, rb_pc, rb_result>>

foVars == <<fo_versions, fo_next, fo_inflight, fo_cycles, fo_pc, fo_result>>

clVars == <<cl_df, cl_pc, cl_out>>

vars == <<cycleVars, fbVars, pgVars, nmVars, dbVars, apVars, rbVars, foVars, clVars>>

\* What the actions of one part leave alone.
notCycle == <<fbVars, pgVars, nmVars, dbVars, apVars, rbVars, foVars, clVars>>
notFallback == <<cycleVars, pgVars, nmVars, dbVars, apVars, rbVars, foVars, clVars>>
notPaging == <<cycleVars, fbVars, nmVars, dbVars, apVars, rbVars, foVars, clVars>>
notGitHub == <<cycleVars, fbVars, pgVars, dbVars, apVars, rbVars, foVars, clVars>>
notDb == <<cycleVars, fbVars, pgVars, nmVars, apVars, rbVars, foVars, clVars>>
notApache == <<cycleVars, fbVars, pgVars, nmVars, dbVars, rbVars, foVars, clVars>>
notRuby == <<cycleVars, fbVars, pgVars, nmVars, dbVars, apVars, foVars, clVars>>
notFanOut == <<cycleVars, fbVars, pgVars, nmVars, dbVars, apVars, rbVars, clVars>>
notCleaning == <<cycleVars, fbVars, pgVars, nmVars, dbVars, apVars, rbVars, foVars>>

(***************************************************************************)
(* Bounds of the model.                                                    *)
(***************************************************************************)
MaxTargets == 3
MaxRows == 2
MaxTags == 2
MaxItems == 1
MaxUpstreamPages == 11
MaxList == 2
MaxMatches == 2
MaxClock == 2
MaxCalls == 4
MaxVersions == 11

Range(s) == {s[k] : k \in DOMAIN s}

SeqsUpTo(S, n) == UNION {[1..k -> S] : k \in 0..n}

(***************************************************************************)
(* Strings, semantic versions and clean_version (github.rs 34-47).  A      *)
(* string is the sequence of its characters.                               *)
(***************************************************************************)
Digits == {"0", "1", "2", "3", "4", "5", "6", "7", "8", "9"}
Letters == {"a", "b", "c", "e", "i", "l", "m", "n", "r", "s", "t", "v"}
IdentChars == Digits \cup Letters \cup {"-"}

DigitValue(c) ==
    CASE c = "0" -> 0 [] c = "1" -> 1 [] c = "2" -> 2 [] c = "3" -> 3
      [] c = "4" -> 4 [] c = "5" -> 5 [] c = "6" -> 6 [] c = "7" -> 7
      [] c = "8" -> 8 [] c = "9" -> 9

RECURSIVE ToNat(_)
ToNat(ds) ==
    IF ds = <<>> THEN 0
    ELSE 10 * ToNat(SubSeq(ds, 1, Len(ds) - 1)) + DigitValue(ds[Len(ds)])

\* The index of the first c in str, 0 when there is none.
IndexOf(str, c) ==
    IF \E k \in DOMAIN str : str[k] = c
    THEN CHOOSE k \in DOMAIN str : str[k] = c /\ \A m \in 1..(k - 1) : str[m] # c
    ELSE 0

\* str.split(c).
RECURSIVE Split(_, _)
Split(str, c) ==
    IF IndexOf(str, c) = 0 THEN <<str>>
    ELSE <<SubSeq(str, 1, IndexOf(str, c) - 1)>>
            \o Split(SubSeq(str, IndexOf(str, c) + 1, Len(str)), c)

AllIn(str, S) == \A k \in DOMAIN str : str[k] \in S
IsNumeric(part) ==
    part # <<>> /\ AllIn(part, Digits) /\ (Len(part) = 1 \/ part[1] # "0")
IsPreIdent(part) ==
    part # <<>> /\ AllIn(part, IdentChars) /\ (AllIn(part, Digits) => IsNumeric(part))
IsBuildIdent(part) == part # <<>> /\ AllIn(part, IdentChars)

\* The parts of "core-pre+build": the build follows the first '+', the
\* pre-release the first '-' before it.
BuildOf(str) ==
    IF IndexOf(str, "+") = 0 THEN <<>> ELSE SubSeq(str, IndexOf(str, "+") + 1, Len(str))
BeforeBuild(str) ==
    IF IndexOf(str, "+") = 0 THEN str ELSE SubSeq(str, 1, IndexOf(str, "+") - 1)
PreOf(str) ==
    LET b == BeforeBuild(str)
    IN IF IndexOf(b, "-") = 0 THEN <<>> ELSE SubSeq(b, IndexOf(b, "-") + 1, Len(b))
CoreOf(str) ==
    LET b == BeforeBuild(str)
    IN IF IndexOf(b, "-") = 0 THEN b ELSE SubSeq(b, 1, IndexOf(b, "-") - 1)

\* semver::Version::parse(str).is_ok().
IsSemver(str) ==
    /\ Len(Split(CoreOf(str), ".")) = 3
    /\ \A k \in 1..3 : IsNumeric(Split(CoreOf(str), ".")[k])
    /\ IndexOf(BeforeBuild(str), "-") # 0 =>
            \A k \in DOMAIN Split(PreOf(str), ".") : IsPreIdent(Split(PreOf(str), ".")[k])
    /\ IndexOf(str, "+") # 0 =>
            \A k \in DOMAIN Split(BuildOf(str), ".") : IsBuildIdent(Split(BuildOf(str), ".")[k])

\* The parsed Version of a string that parses.
VersionOf(str) ==
    [major |-> ToNat(Split(CoreOf(str), ".")[1]),
     minor |-> ToNat(Split(CoreOf(str), ".")[2]),
     patch |-> ToNat(Split(CoreOf(str), ".")[3]),
     pre |-> PreOf(str),
     build |-> BuildOf(str)]

\* ASCII order of the characters of the model.
CharRank(c) ==
    CASE c = "+" -> 43 [] c = "-" -> 45 [] c = "." -> 46
      [] c \in Digits -> 48 + DigitValue(c)
      [] c = "a" -> 97 [] c = "b" -> 98 [] c = "c" -> 99 [] c = "e" -> 101
      [] c = "i" -> 105 [] c = "l" -> 108 [] c = "m" -> 109 [] c = "n" -> 110
      [] c = "r" -> 114 [] c = "s" -> 115 [] c = "t" -> 116 [] c = "v" -> 118

RECURSIVE StrLess(_, _)
StrLess(a, b) ==
    IF b = <<>> THEN FALSE
    ELSE IF a = <<>> THEN TRUE
    ELSE IF a[1] # b[1] THEN CharRank(a[1]) < CharRank(b[1])
    ELSE StrLess(Tail(a), Tail(b))

\* Version::cmp on versions without pre-release: v1 < v2.
VersionLess(v1, v2) ==
    IF v1.major # v2.major THEN v1.major < v2.major
    ELSE IF v1.minor # v2.minor THEN v1.minor < v2.minor
    ELSE IF v1.patch # v2.patch THEN v1.patch < v2.patch
    ELSE StrLess(v1.build, v2.build)

\* str::strip_prefix / strip_suffix as clean_version uses them: the string
\* without the affix when it has it, the string itself when it has not.
StripPrefix(str, pre) ==
    IF Len(pre) <= Len(str) /\ SubSeq(str, 1, Len(pre)) = pre
    THEN SubSeq(str, Len(pre) + 1, Len(str))
    ELSE str
StripSuffix(str, suf) ==
    IF Len(suf) <= Len(str) /\ SubSeq(str, Len(str) - Len(suf) + 1, Len(str)) = suf
    THEN SubSeq(str, 1, Len(str) - Len(suf))
    ELSE str

\* str::trim_start_matches('v').
RECURSIVE TrimStartV(_)
TrimStartV(str) ==
    IF str # <<>> /\ str[1] = "v" THEN TrimStartV(Tail(str)) ELSE str

\* github.rs 34-47.
clean_version(version_str) ==
    TrimStartV(StripSuffix(StripPrefix(version_str, cleaning.trim_prefix),
                           cleaning.trim_suffix))

(***************************************************************************)
(* Configuration: Target { name, enabled, source }.  source is "github"    *)
(* for a target with a `type: github` section and "none" without one.      *)
(***************************************************************************)
Target(n, e, s) == [name |-> n, enabled |-> e, source |-> s]

TargetPool ==
    {Target(d[1], e, d[2]) :
        d \in {<<"caddy", "github">>, <<"caddy", "none">>,
               <<"apache", "none">>, <<"node", "none">>, <<"go", "none">>},
        e \in BOOLEAN}

\* The names main.rs maps to a built-in collector when a target has no source.
LegacyNames == {"node", "eclipse-temurin", "go", "php", "perl", "apache"}

\* main.rs 39-71: the collector a target is instantiated into, or "skip".
CollectorKind(t) ==
    IF t.source = "github" THEN "github"
    ELSE IF t.name \in LegacyNames THEN t.name
    ELSE "skip"

\* main.rs 35-37 dropped: every recognised target gets a collector.
RECURSIVE BuildCollectorsNoEnabledCheck(_)
BuildCollectorsNoEnabledCheck(ts) ==
    IF ts = <<>> THEN <<>>
    ELSE LET t == Head(ts)
             rest == BuildCollectorsNoEnabledCheck(Tail(ts))
         IN IF CollectorKind(t) = "skip" THEN rest
            ELSE <<[name |-> t.name, kind |-> CollectorKind(t), target |-> Len(config) - Len(ts) + 1]>> \o rest

\* main.rs 33-76: the collectors of the enabled, recognised targets, in order.
RECURSIVE BuildCollectors(_)
BuildCollectors(ts) ==
    IF ts = <<>> THEN <<>>
    ELSE LET t == Head(ts)
             rest == BuildCollectors(Tail(ts))
         IN IF ~t.enabled THEN rest
            ELSE IF CollectorKind(t) = "skip" THEN rest
            ELSE <<[name |-> t.name, kind |-> CollectorKind(t), target |-> Len(config) - Len(ts) + 1]>> \o rest

(***************************************************************************)
(* DataFrames.  A frame has a schema and rows.  "canonical" is the         *)
(* 8-column schema of the df! of github.rs and apache.rs, "cycles" the     *)
(* 4-column schema of product_cycles_to_dataframe.                         *)
(***************************************************************************)
NoDf == [schema |-> "none", rows |-> <<>>]

\* The schema a collector's Ok frame has.
SchemaOf(kind) ==
    IF kind \in {"github", "apache"} THEN "canonical" ELSE "cycles"

\* format!("{n}") of an unsigned number.
DigitChar(d) == CHOOSE c \in Digits : DigitValue(c) = d
RECURSIVE FormatNat(_)
FormatNat(n) ==
    IF n < 10 THEN <<DigitChar(n)>>
    ELSE FormatNat(n \div 10) \o <<DigitChar(n % 10)>>

\* The httpd-X.Y.Z.tar.gz names a download page can list, as (X, Y, Z); a
\* body is the sequence of the regex captures in it (apache.rs 52-55).
ApacheVersionPool == {<<1, 3, 42>>, <<2, 2, 34>>, <<2, 4, 58>>, <<2, 4, 59>>}
ApacheBodies == SeqsUpTo(ApacheVersionPool, MaxMatches)

\* apache.rs 54-69: the BTreeSet of the captured versions from 2.x.x on.
ApacheVersions(body) == {v \in Range(body) : v[1] >= 2}

\* apache.rs 72-78 keeping every patch of a branch.
every_patch(versions) == versions

\* apache.rs 72-78: the highest patch of each (major, minor) branch.
latest_per_branch(versions) ==
    {v \in versions :
        \A w \in versions : (w[1] = v[1] /\ w[2] = v[2]) => w[3] <= v[3]}

\* apache.rs 93: format!("{major}.{minor}.{patch}").
FormatVersion(v) ==
    FormatNat(v[1]) \o <<".">> \o FormatNat(v[2]) \o <<".">> \o FormatNat(v[3])

\* The orders in which a HashMap can be iterated.
IterationOrders(S) == {f \in [1..Cardinality(S) -> S] : Range(f) = S}

\* An Option<String>: None, or Some(s).
None == <<>>
Some(s) == <<s>>

\* A row of a frame: the name and latest_version columns (a cycles frame has
\* no latest_version column), the latest_lts_version column, which every
\* df! of the collectors fills with None (github.rs 130, apache.rs 94), the
\* task that produced it and its position.
Row(name, latest_version, j, k) ==
    [name |-> name, latest_version |-> latest_version,
     latest_lts_version |-> None, src |-> j, k |-> k]

\* apache.rs 80-112: the frames built from a page body, one row per branch,
\* every row named "apache", in an iteration order of the HashMap.
ApacheFramesOf(body, j) ==
    {[schema |-> SchemaOf("apache"),
      rows |-> [k \in DOMAIN order |-> Row("apache", FormatVersion(order[k]), j, k)]] :
        order \in IterationOrders(latest_per_branch(ApacheVersions(body)))}

\* apache.rs 29-113: the frames collect() can return Ok with.
ApacheFrames(j) == UNION {ApacheFramesOf(body, j) : body \in ApacheBodies}

\* Two of the tag names a repository can list.
CycleTags == {<<"v", "1", ".", "2", ".", "3">>, <<"m", "a", "i", "n">>}

\* github.rs 80-93 and 120-138: the frames the GitHub collector returns Ok
\* with, one row with the cleaned tag name as latest_version.
GitHubFrames(c, j) ==
    {[schema |-> SchemaOf(c.kind), rows |-> <<Row(c.name, clean_version(t), j, 1)>>] :
        t \in CycleTags}

\* The number of rows a product_cycles_to_dataframe collector can return Ok
\* with: any number for node (node.rs 68), at least one for those that
\* return NotFound on an empty list (go.rs 76-78, php.rs 122-124, ...).
RowCounts(kind) == IF kind = "node" THEN 0..MaxRows ELSE 1..MaxRows

\* lib.rs 99-129: the name column of a cycles frame is the cycle's name.
RowsOf(c, j, n) == [k \in 1..n |-> Row("1.0.0", <<>>, j, k)]

CyclesFrames(c, j) ==
    {[schema |-> SchemaOf(c.kind), rows |-> RowsOf(c, j, n)] : n \in RowCounts(c.kind)}

\* The frames collector c, run by task j, can return Ok with.
FramesOf(c, j) ==
    IF c.kind = "github" THEN GitHubFrames(c, j)
    ELSE IF c.kind = "apache" THEN ApacheFrames(j)
    ELSE CyclesFrames(c, j)

\* DataFrame::vstack_mut: fails unless the schemas agree.
VstackOk(a, b) == a.schema = b.schema
Vstack(a, b) == [schema |-> a.schema, rows |-> a.rows \o b.rows]

\* main.rs 111-114: the union of all frames, or the first vstack error.
RECURSIVE UnionAll(_, _)
UnionAll(acc, dfs) ==
    IF dfs = <<>> THEN [ok |-> TRUE, df |-> acc]
    ELSE IF ~VstackOk(acc, Head(dfs)) THEN [ok |-> FALSE, df |-> NoDf]
    ELSE UnionAll(Vstack(acc, Head(dfs)), Tail(dfs))

\* main.rs 118-152: the cleaning expression and the column extraction need
\* the canonical columns (latest_version, latest_lts_version, ...).
HasCanonicalColumns(df) == df.schema = "canonical"

\* A configuration that names every target once.
DistinctNames(ts) ==
    \A a, b \in DOMAIN ts : ts[a].name = ts[b].name => a = b

(***************************************************************************)
(* The collection cycle.                                                   *)
(***************************************************************************)
InitCycle ==
    /\ config \in SeqsUpTo(TargetPool, MaxTargets)
    /\ DistinctNames(config)
    /\ pc = "start"
    /\ collectors = <<>>
    /\ task = <<>>
    /\ calls = <<>>
    /\ joined = 0
    /\ all_dataframes = <<>>
    /\ failed_targets = <<>>
    /\ cleaned_df = NoDf
    /\ row = 0
    /\ upserts = <<>>
    /\ db = <<>>
    /\ exit = "none"
    /\ warned = FALSE

\* main.rs 33-86: build the collectors and spawn one task per collector.
Dispatch ==
    /\ pc = "start"
    /\ collectors' = BuildCollectors(config)
    /\ task' = [j \in 1..Len(collectors') |-> [st |-> "running", df |-> NoDf]]
    /\ calls' = [j \in 1..Len(collectors') |-> 0]
    /\ pc' = "await"
    /\ UNCHANGED <<config, joined, all_dataframes, failed_targets, cleaned_df,
                   row, upserts, db, exit, warned>>
    /\ UNCHANGED notCycle

\* A task that calls collect() again after an error.
CollectPendingOrFailed(t) == t.st \in {"running", "err"}

\* main.rs 80-84: the body of a spawned task is one collector.collect()
\* call; a task whose call has returned has nothing left to run.
CollectPending(t) == t.st = "running"

\* main.rs 80-84: task j runs collector.collect() to its result.
TaskCollect(j) ==
    /\ pc = "await"
    /\ j \in DOMAIN task
    /\ CollectPending(task[j])
    /\ calls' = [calls EXCEPT ![j] = @ + 1]
    /\ \/ task' = [task EXCEPT ![j] = [st |-> "err", df |-> NoDf]]
       \/ \E df \in FramesOf(collectors[j], j) :
            task' = [task EXCEPT ![j] = [st |-> "ok", df |-> df]]
    /\ UNCHANGED <<config, pc, collectors, joined, all_dataframes,
                   failed_targets, cleaned_df, row, upserts, db, exit, warned>>
    /\ UNCHANGED notCycle

\* main.rs 91-104: await the next handle and file its result.
Await ==
    /\ pc = "await"
    /\ joined < Len(collectors)
    /\ task[joined + 1].st \in {"ok", "err"}
    /\ joined' = joined + 1
    /\ IF task[joined + 1].st = "ok"
       THEN /\ all_dataframes' = Append(all_dataframes, task[joined + 1].df)
            /\ UNCHANGED failed_targets
       ELSE /\ failed_targets' = Append(failed_targets, collectors[joined + 1].name)
            /\ UNCHANGED all_dataframes
    /\ UNCHANGED <<config, pc, collectors, task, calls, cleaned_df, row,
                   upserts, db, exit, warned>>
    /\ UNCHANGED notCycle

\* main.rs 108 returning an error instead.
NoDataExitErr == "err"

\* main.rs 106-109: what main returns when no collector succeeded.
NoDataExit == "ok"

\* str::trim_end_matches: the suffix is removed as often as it ends the string.
EndsWith(str, suf) ==
    Len(suf) <= Len(str) /\ SubSeq(str, Len(str) - Len(suf) + 1, Len(str)) = suf
RECURSIVE TrimEndMatches(_, _)
TrimEndMatches(str, suf) ==
    IF EndsWith(str, suf) THEN TrimEndMatches(StripSuffix(str, suf), suf) ELSE str

DashLts == <<"-", "L", "T", "S">>
DotLts == <<".", "L", "T", "S">>

\* The cleaning applied to the rows of every name.
CleanAppliesAlways(name) == TRUE

\* main.rs 122: when(col("name").eq(lit("eclipse-temurin"))).
CleanApplies(name) == name = "eclipse-temurin"

\* main.rs 123-138: the new latest_lts_version of a row.
CleanRow(r) ==
    IF CleanApplies(r.name) /\ r.latest_lts_version # None
    THEN [r EXCEPT !.latest_lts_version =
            Some(TrimEndMatches(TrimEndMatches(@[1], DashLts), DotLts))]
    ELSE r

\* main.rs 118-140: the cleaning pass over the aggregated frame.
CleanFrame(df) == [df EXCEPT !.rows = [k \in DOMAIN @ |-> CleanRow(@[k])]]

\* main.rs 106-152: the empty check, the union, the cleaning pass and the
\* column extraction, up to the first upsert.
Aggregate ==
    /\ pc = "await"
    /\ joined = Len(collectors)
    /\ IF all_dataframes = <<>>
       THEN /\ pc' = "done" /\ exit' = NoDataExit /\ UNCHANGED cleaned_df
       ELSE LET u == UnionAll(Head(all_dataframes), Tail(all_dataframes))
            IN IF u.ok /\ HasCanonicalColumns(u.df)
               THEN /\ cleaned_df' = CleanFrame(u.df) /\ pc' = "persist" /\ UNCHANGED exit
               ELSE /\ pc' = "done" /\ exit' = "err" /\ UNCHANGED cleaned_df
    /\ UNCHANGED <<config, collectors, task, calls, joined, all_dataframes,
                   failed_targets, row, upserts, db, warned>>
    /\ UNCHANGED notCycle

\* upsert_version keeping the stored row on a conflict.
upsert_version_keep_first(store, v) ==
    IF \E k \in DOMAIN store : store[k].name = v.name
    THEN store
    ELSE Append(store, v)

\* Db::upsert_version(&version): insert or update the row keyed by name.
upsert_version(store, v) ==
    IF \E k \in DOMAIN store : store[k].name = v.name
    THEN [k \in DOMAIN store |-> IF store[k].name = v.name THEN v ELSE store[k]]
    ELSE Append(store, v)

\* main.rs 154-171 with `?` on the upsert: a failed upsert ends main.
UpsertOrReturn ==
    /\ pc = "persist"
    /\ row < Len(cleaned_df.rows)
    /\ LET v == cleaned_df.rows[row + 1]
       IN \/ /\ db' = upsert_version(db, v)
             /\ upserts' = Append(upserts, [v |-> v, ok |-> TRUE])
             /\ UNCHANGED <<failed_targets, pc, exit>>
          \/ /\ upserts' = Append(upserts, [v |-> v, ok |-> FALSE])
             /\ pc' = "done" /\ exit' = "err"
             /\ UNCHANGED <<db, failed_targets>>
    /\ row' = row + 1
    /\ UNCHANGED <<config, collectors, task, calls, joined, all_dataframes,
                   cleaned_df, warned>>
    /\ UNCHANGED notCycle

\* main.rs 154-171: one upsert per row; a failed upsert adds the name to
\* failed_targets and the loop goes on.
Upsert ==
    /\ pc = "persist"
    /\ row < Len(cleaned_df.rows)
    /\ LET v == cleaned_df.rows[row + 1]
       IN \/ /\ db' = upsert_version(db, v)
             /\ upserts' = Append(upserts, [v |-> v, ok |-> TRUE])
             /\ UNCHANGED failed_targets
          \/ /\ failed_targets' = Append(failed_targets, v.name)
             /\ upserts' = Append(upserts, [v |-> v, ok |-> FALSE])
             /\ UNCHANGED db
    /\ row' = row + 1
    /\ UNCHANGED <<config, pc, collectors, task, calls, joined, all_dataframes,
                   cleaned_df, exit, warned>>
    /\ UNCHANGED notCycle

\* main.rs 173-180: the final warning and Ok(()).
Finish ==
    /\ pc = "persist"
    /\ row = Len(cleaned_df.rows)
    /\ warned' = (failed_targets # <<>>)
    /\ exit' = "ok"
    /\ pc' = "done"
    /\ UNCHANGED <<config, collectors, task, calls, joined, all_dataframes,
                   failed_targets, cleaned_df, row, upserts, db>>
    /\ UNCHANGED notCycle

\* main.rs 80-84 with a provider that never answers: collect() sends its
\* request through a client with no timeout and the task never completes.
TaskHang(j) ==
    /\ pc = "await"
    /\ j \in DOMAIN task
    /\ task[j].st = "running"
    /\ calls' = [calls EXCEPT ![j] = @ + 1]
    /\ task' = [task EXCEPT ![j] = [st |-> "hung", df |-> NoDf]]
    /\ UNCHANGED <<config, pc, collectors, joined, all_dataframes,
                   failed_targets, cleaned_df, row, upserts, db, exit, warned>>
    /\ UNCHANGED notCycle

NextCycle ==
    \/ Dispatch
    \/ \E j \in 1..MaxTargets : TaskCollect(j)
    \/ Await
    \/ Aggregate
    \/ Upsert
    \/ Finish

IdleCycle ==
    /\ config = <<>>
    /\ pc = "idle"
    /\ collectors = <<>>
    /\ task = <<>>
    /\ calls = <<>>
    /\ joined = 0
    /\ all_dataframes = <<>>
    /\ failed_targets = <<>>
    /\ cleaned_df = NoDf
    /\ row = 0
    /\ upserts = <<>>
    /\ db = <<>>
    /\ exit = "none"
    /\ warned = FALSE

(***************************************************************************)
(* Collectors with a provider fallback: mysql.rs, kong.rs, swift.rs.       *)
(* A tag name is modelled by its parts: the text before the version        *)
(* number, the dot-separated numbers, and the text after them.             *)
(***************************************************************************)
Tag(p, n, x) == [pre |-> p, nums |-> n, suf |-> x]

TagPool ==
    {Tag("", <<8, 0, 1>>, ""), Tag("mysql-", <<8, 0, 1>>, ""),
     Tag("", <<5, 9>>, "-rc"), Tag("", <<1, 2, 3>>, ""),
     Tag("latest", <<>>, "")}

\* What a provider can answer to one request: a success status with a
\* parsable body (its tags), a non-success status, a network error on send,
\* or a success status with a body that does not deserialize.
Responses ==
    {[type |-> "ok", code |-> 200, tags |-> ts] : ts \in SeqsUpTo(TagPool, MaxTags)}
    \cup {[type |-> "status", code |-> c, tags |-> <<>>] : c \in {403, 429, 500}}
    \cup {[type |-> t, code |-> 0, tags |-> <<>>] : t \in {"neterr", "badjson"}}

Fetched(ts) == [ok |-> TRUE, tags |-> ts, err |-> "none"]
FetchErr(e) == [ok |-> FALSE, tags |-> <<>>, err |-> e]

\* fetch_docker_tags (mysql.rs 79-107, kong.rs 70-97, swift.rs 70-97).
fetch_docker_tags(r) ==
    CASE r.type = "neterr" -> FetchErr("Reqwest(send)")
      [] r.type = "status" -> FetchErr("Other(Docker Hub API returned status)")
      [] r.type = "badjson" -> FetchErr("Reqwest(decode)")
      [] OTHER -> Fetched(r.tags)

\* Any non-success status switches to Docker Hub.
StatusFallsBackAlways(code) == TRUE

\* Only 403 switches to Docker Hub.
StatusFallsBackForbiddenOnly(code) == code = 403

\* mysql.rs 63, kong.rs 55, swift.rs 55: the statuses on which the GitHub
\* fetch switches to Docker Hub.
StatusFallsBack(code) == code \in {403, 429}

\* The GitHub request of fetch_tags / fetch_github_tags when it does not
\* switch to Docker Hub (mysql.rs 59-76, kong.rs 51-67, swift.rs 51-67).
github_only(r) ==
    CASE r.type = "neterr" -> FetchErr("Reqwest(send)")
      [] r.type = "status" -> FetchErr("Other(GitHub API returned unexpected status)")
      [] r.type = "badjson" -> FetchErr("Reqwest(decode)")
      [] OTHER -> Fetched(r.tags)

\* The version a tag yields, or <<>>: the regex capture and Version::parse.
\*   mysql.rs 120:  (?:mysql(?:-cluster)?-)?(\d+\.\d+\.\d+)(?:-.*)?$
\*   kong.rs 110:   ^(\d+\.\d+\.\d+)(?:-.*)?$
\*   swift.rs 101:  (?:swift-)?(\d+\.\d+(?:\.\d+)?)(?:-.*)?$  and "x.y" -> "x.y.0"
SufMatches(x) == x \in {"", "-rc"}
Captured(kind, t) ==
    IF ~SufMatches(t.suf) THEN <<>>
    ELSE IF kind = "kong" THEN (IF t.pre = "" /\ Len(t.nums) = 3 THEN t.nums ELSE <<>>)
    ELSE IF kind = "mysql" THEN (IF Len(t.nums) = 3 THEN t.nums ELSE <<>>)
    ELSE IF Len(t.nums) = 3 THEN t.nums
    ELSE IF Len(t.nums) = 2 THEN t.nums \o <<0>>
    ELSE <<>>

\* mysql.rs 134, kong.rs 122, swift.rs 118: versions too old to list.
TooOld(kind, v) ==
    CASE kind = "mysql" -> v[1] < 5 \/ (v[1] = 5 /\ v[2] < 6)
      [] kind = "kong" -> v[1] < 2
      [] OTHER -> v[1] < 5

\* The filter_map over the tags with the seen_versions set
\* (mysql.rs 124-155, kong.rs 114-145, swift.rs 99-142).
RECURSIVE ProcessFrom(_, _, _)
ProcessFrom(kind, ts, seen) ==
    IF ts = <<>> THEN <<>>
    ELSE LET v == Captured(kind, Head(ts))
         IN IF v = <<>> \/ TooOld(kind, v) \/ v \in seen
            THEN ProcessFrom(kind, Tail(ts), seen)
            ELSE <<v>> \o ProcessFrom(kind, Tail(ts), seen \cup {v})

process_tags(kind, ts) == ProcessFrom(kind, ts, {})

\* swift.rs 181-186 with an empty list.
NoKnownVersions == <<>>

\* swift.rs 181-186.
KnownSwiftVersions ==
    << <<6, 0, 3>>, <<6, 0, 2>>, <<6, 0, 1>>, <<6, 0, 0>>, <<5, 10, 1>>,
       <<5, 10, 0>>, <<5, 9, 2>>, <<5, 9, 1>>, <<5, 9, 0>>, <<5, 8, 1>>,
       <<5, 8, 0>>, <<5, 7, 3>>, <<5, 7, 2>>, <<5, 7, 1>>, <<5, 7, 0>>,
       <<5, 6, 3>>, <<5, 6, 2>>, <<5, 6, 1>>, <<5, 6, 0>>, <<5, 5, 3>>,
       <<5, 5, 2>>, <<5, 5, 1>>, <<5, 5, 0>>, <<5, 4, 3>>, <<5, 4, 2>>,
       <<5, 4, 1>>, <<5, 4, 0>>, <<5, 3, 3>>, <<5, 3, 2>>, <<5, 3, 1>>,
       <<5, 3, 0>> >>

NoResult == [st |-> "none", cycles |-> <<>>, err |-> "none"]
OkResult(cs) == [st |-> "ok", cycles |-> cs, err |-> "none"]
ErrResult(e) == [st |-> "err", cycles |-> <<>>, err |-> e]

\* The collect() body without the empty check.
CollectedKeepEmpty(kind, f) ==
    IF ~f.ok THEN ErrResult(f.err) ELSE OkResult(process_tags(kind, f.tags))

\* mysql.rs 115-162, kong.rs 105-152: collect() after fetch_tags returned f.
Collected(kind, f) ==
    IF ~f.ok THEN ErrResult(f.err)
    ELSE IF process_tags(kind, f.tags) = <<>> THEN ErrResult("NotFound")
    ELSE OkResult(process_tags(kind, f.tags))

\* swift.rs 153-178: whether a fetch ends collect() with its cycles.
SwiftUsable(f) == f.ok /\ process_tags("swift", f.tags) # <<>>

IdleFallback ==
    /\ fb_kind = "idle" /\ fb_pc = "idle" /\ fb_log = <<>> /\ fb_result = NoResult

InitFallback ==
    /\ fb_kind \in {"mysql", "kong", "swift"}
    /\ fb_pc = IF fb_kind = "swift" THEN "docker" ELSE "github"
    /\ fb_log = <<>>
    /\ fb_result = NoResult

\* MySqlCollector::collect / KongCollector::collect: the GitHub request of
\* fetch_tags, then either the switch to Docker Hub or the rest of collect().
GithubRequest ==
    /\ fb_kind \in {"mysql", "kong"}
    /\ fb_pc = "github"
    /\ \E r \in Responses :
        /\ fb_log' = Append(fb_log, [provider |-> "github", resp |-> r])
        /\ IF r.type = "status" /\ StatusFallsBack(r.code)
           THEN fb_pc' = "docker" /\ UNCHANGED fb_result
           ELSE fb_pc' = "done" /\ fb_result' = Collected(fb_kind, github_only(r))
    /\ UNCHANGED fb_kind
    /\ UNCHANGED notFallback

\* fetch_docker_tags called from fetch_tags, and the rest of collect().
DockerRequest ==
    /\ fb_kind \in {"mysql", "kong"}
    /\ fb_pc = "docker"
    /\ \E r \in Responses :
        /\ fb_log' = Append(fb_log, [provider |-> "docker", resp |-> r])
        /\ fb_result' = Collected(fb_kind, fetch_docker_tags(r))
    /\ fb_pc' = "done"
    /\ UNCHANGED fb_kind
    /\ UNCHANGED notFallback

\* swift.rs 153-164: Docker Hub first.
SwiftDocker ==
    /\ fb_kind = "swift"
    /\ fb_pc = "docker"
    /\ \E r \in Responses :
        /\ fb_log' = Append(fb_log, [provider |-> "docker", resp |-> r])
        /\ IF SwiftUsable(fetch_docker_tags(r))
           THEN /\ fb_result' = OkResult(process_tags("swift", r.tags))
                /\ fb_pc' = "done"
           ELSE fb_pc' = "github" /\ UNCHANGED fb_result
    /\ UNCHANGED fb_kind
    /\ UNCHANGED notFallback

\* swift.rs 167-201 with the GitHub request of fetch_github_tags
\* (swift.rs 38-68): then GitHub, and the known versions when it is of no use.
SwiftGithub ==
    /\ fb_kind = "swift"
    /\ fb_pc = "github"
    /\ \E r \in Responses :
        /\ fb_log' = Append(fb_log, [provider |-> "github", resp |-> r])
        /\ IF r.type = "status" /\ StatusFallsBack(r.code)
           THEN fb_pc' = "docker2" /\ UNCHANGED fb_result
           ELSE /\ fb_pc' = "done"
                /\ fb_result' = IF SwiftUsable(github_only(r))
                                THEN OkResult(process_tags("swift", r.tags))
                                ELSE OkResult(KnownSwiftVersions)
    /\ UNCHANGED fb_kind
    /\ UNCHANGED notFallback

\* swift.rs 57 and 167-201: fetch_docker_tags called from fetch_github_tags.
SwiftDockerAgain ==
    /\ fb_kind = "swift"
    /\ fb_pc = "docker2"
    /\ \E r \in Responses :
        /\ fb_log' = Append(fb_log, [provider |-> "docker", resp |-> r])
        /\ fb_result' = IF SwiftUsable(fetch_docker_tags(r))
                        THEN OkResult(process_tags("swift", r.tags))
                        ELSE OkResult(KnownSwiftVersions)
    /\ fb_pc' = "done"
    /\ UNCHANGED fb_kind
    /\ UNCHANGED notFallback

NextFallback ==
    \/ GithubRequest
    \/ DockerRequest
    \/ SwiftDocker
    \/ SwiftGithub
    \/ SwiftDockerAgain

(***************************************************************************)
(* Paged fetches: GitHubCollector::fetch (github.rs 141-221) and the page  *)
(* loop of EclipseTemurinCollector::collect (eclipse_temurin.rs 74-93).    *)
(***************************************************************************)
\* github.rs 149.
MAX_PAGES == 10

\* A Link header is modelled by the rel values of its parts, in order; the
\* absent header is the empty sequence.
LinkHeaders == {<<>>, <<"prev", "first">>, <<"next", "last">>, <<"prev", "next">>}

\* github.rs 224-239: whether a part with rel="next" yields Some(url).
parse_link_header(h) == \E k \in DOMAIN h : h[k] = "next"

\* The items of a page: the page number and the position in the page.
PageItems(pg, n) == [k \in 1..n |-> <<pg, k>>]

RECURSIVE ItemsServed(_)
ItemsServed(sv) ==
    IF sv = <<>> THEN <<>>
    ELSE ItemsServed(SubSeq(sv, 1, Len(sv) - 1)) \o PageItems(Len(sv), sv[Len(sv)].n)

\* The loop stops one page late.
PageLimitReachedLate(n) == n > MAX_PAGES

\* github.rs 152: the page limit check at the head of the loop.
PageLimitReached(n) == n >= MAX_PAGES

\* A result carries the wait time its message states, NoWait when none.
NoWait == -1
NoFetch == [st |-> "none", items |-> <<>>, err |-> "none", wait |-> NoWait]
FetchOk(xs) == [st |-> "ok", items |-> xs, err |-> "none", wait |-> NoWait]
FetchFailed(e) == [st |-> "err", items |-> <<>>, err |-> e, wait |-> NoWait]
RateLimited(msg, wait) == [st |-> "err", items |-> <<>>, err |-> msg, wait |-> wait]

\* The x-ratelimit-remaining and x-ratelimit-reset headers of a response:
\* "none" and NoWait stand for an absent header.
NoHeaders == [remaining |-> "none", reset |-> NoWait]
RateHeaders == [remaining : {"none", "0", "5"}, reset : {NoWait, 60}]

\* .and_then(|s| s.parse::<u64>().ok()).unwrap_or(0) of x-ratelimit-reset.
ResetOrZero(hdr) == IF hdr.reset = NoWait THEN 0 ELSE hdr.reset

\* github.rs 173-207: the error for a non-success status.
StatusError(code, hdr) ==
    CASE code = 403 -> FetchFailed("Other(GitHub API returned 403 Forbidden)")
      [] code = 429 -> RateLimited("RateLimited(GitHub API rate limit exceeded)",
                                   ResetOrZero(hdr))
      [] OTHER -> FetchFailed("Other(GitHub API returned unexpected status)")

\* nginx.rs 33-53: the error for a 403 or 429.
NginxStatusError(hdr) ==
    IF hdr.remaining = "0"
    THEN RateLimited("RateLimited(GitHub API rate limit exceeded)", ResetOrZero(hdr))
    ELSE FetchFailed("Other(GitHub API returned forbidden or rate limited)")

IdlePaging ==
    /\ pg_kind = "idle" /\ pg_pc = "idle" /\ next_url = FALSE /\ page_count = 0
    /\ results = <<>> /\ pg_requests = 0 /\ served = <<>> /\ pg_result = NoFetch
    /\ pg_status = 0 /\ pg_hdr = NoHeaders

InitPaging ==
    /\ pg_kind \in {"github", "temurin", "nginx"}
    /\ pg_pc = "loop"
    /\ next_url = (pg_kind = "github")
    /\ page_count = 0
    /\ results = <<>>
    /\ pg_requests = 0
    /\ served = <<>>
    /\ pg_result = NoFetch
    /\ pg_status = 0
    /\ pg_hdr = NoHeaders

\* A fetch that returns what it has accumulated when a page request fails.
ReturnAccumulated(v) ==
    /\ pg_result' = IF v.st = "err" THEN FetchOk(results) ELSE v
    /\ pg_pc' = "done"
    /\ results' = <<>>

\* How fetch leaves: the locals are dropped and the value is returned.
Return(v) ==
    /\ pg_result' = v
    /\ pg_pc' = "done"
    /\ results' = <<>>

\* github.rs 151-220: one iteration of the while loop, from the page limit
\* check passed to the next evaluation of the loop head.  On entry
\* next_url is Some and the page limit is not reached.
FetchPage ==
    /\ pg_kind = "github"
    /\ pg_pc = "loop"
    /\ next_url
    /\ ~PageLimitReached(page_count)
    /\ page_count' = page_count + 1
    /\ pg_requests' = pg_requests + 1
    /\ \/ /\ Return(FetchFailed("Reqwest(send)"))
          /\ UNCHANGED <<next_url, served, pg_status, pg_hdr>>
       \/ \E code \in {403, 429, 500}, hdr \in RateHeaders :
            /\ pg_status' = code
            /\ pg_hdr' = hdr
            /\ Return(StatusError(code, hdr))
            /\ UNCHANGED <<next_url, served>>
       \/ \E h \in LinkHeaders :
            /\ pg_status' = 200
            /\ pg_hdr' = NoHeaders
            /\ next_url' = parse_link_header(h)
            /\ Return(FetchFailed("Reqwest(decode)"))
            /\ UNCHANGED served
       \/ \E h \in LinkHeaders, n \in 0..MaxItems :
            /\ pg_status' = 200
            /\ pg_hdr' = NoHeaders
            /\ next_url' = parse_link_header(h)
            /\ served' = Append(served, [n |-> n, next |-> parse_link_header(h)])
            /\ IF ~next_url' \/ PageLimitReached(page_count')
               THEN Return(FetchOk(results \o PageItems(page_count', n)))
               ELSE /\ results' = results \o PageItems(page_count', n)
                    /\ UNCHANGED <<pg_pc, pg_result>>
    /\ UNCHANGED pg_kind
    /\ UNCHANGED notPaging

\* eclipse_temurin.rs 77-93: one iteration of the page loop.  The upstream
\* of the model has at most MaxUpstreamPages non-empty pages.
TemurinPage ==
    /\ pg_kind = "temurin"
    /\ pg_pc = "loop"
    /\ pg_requests' = pg_requests + 1
    /\ \/ /\ Return(FetchFailed("Reqwest(send)"))
          /\ UNCHANGED <<page_count, served>>
       \/ /\ Return(FetchFailed("SerdeJson"))
          /\ UNCHANGED <<page_count, served>>
       \/ \E body \in {"", "{}", "versions: []"} :
            /\ pg_pc' = "lookup"
            /\ UNCHANGED <<page_count, served, results, pg_result>>
       \/ \E n \in 1..MaxItems :
            /\ page_count < MaxUpstreamPages
            /\ served' = Append(served, [n |-> n, next |-> TRUE])
            /\ results' = results \o PageItems(page_count + 1, n)
            /\ page_count' = page_count + 1
            /\ UNCHANGED <<pg_pc, pg_result>>
    /\ UNCHANGED <<pg_kind, next_url, pg_status, pg_hdr>>
    /\ UNCHANGED notPaging

\* eclipse_temurin.rs 95-132: one cycle per version, NotFound when none.
TemurinLookup ==
    /\ pg_kind = "temurin"
    /\ pg_pc = "lookup"
    /\ IF results = <<>>
       THEN Return(FetchFailed("NotFound"))
       ELSE Return(FetchOk(results))
    /\ UNCHANGED <<pg_kind, next_url, page_count, pg_requests, served, pg_status, pg_hdr>>
    /\ UNCHANGED notPaging

\* nginx.rs 22-78: the single request of the nginx collector, the check of
\* 403 and 429, the decoding, and the first stable release.
NginxCollect ==
    /\ pg_kind = "nginx"
    /\ pg_pc = "loop"
    /\ pg_requests' = pg_requests + 1
    /\ \/ /\ Return(FetchFailed("Reqwest(send)"))
          /\ UNCHANGED <<pg_status, pg_hdr>>
       \/ \E code \in {403, 429}, hdr \in RateHeaders :
            /\ pg_status' = code
            /\ pg_hdr' = hdr
            /\ Return(NginxStatusError(hdr))
       \/ \E code \in {200, 500} :
            /\ pg_status' = code
            /\ pg_hdr' = NoHeaders
            /\ \/ Return(FetchFailed("Reqwest(decode)"))
               \/ Return(FetchFailed("NotFound"))
               \/ Return(FetchOk(PageItems(1, 1)))
    /\ UNCHANGED <<pg_kind, next_url, page_count, served>>
    /\ UNCHANGED notPaging

NextPaging ==
    \/ FetchPage
    \/ TemurinPage
    \/ TemurinLookup
    \/ NginxCollect

(***************************************************************************)
(* One collect() of the GitHub collector (github.rs 56-139).                *)
(***************************************************************************)
\* The raw tag names of the model.
RawTags ==
    {<<"v", "1", ".", "2", ".", "3">>,
     <<"1", ".", "2", ".", "3", "-", "l", "a", "t", "e", "s", "t">>,
     <<"r", "e", "l", "e", "a", "s", "e", "-", "1", ".", "2", ".", "3">>,
     <<"1", ".", "2">>,
     <<"m", "a", "i", "n">>,
     <<"2", ".", "0", ".", "0">>,
     <<"v", "1", ".", "1", "0", ".", "0">>,
     <<"v", "2", ".", "0", ".", "0", "-", "r", "c", "1">>}

\* The cleaning rules of the model; <<>> stands for None.
Prefixes == {<<>>, <<"r", "e", "l", "e", "a", "s", "e", "-">>, <<"v">>}
Suffixes == {<<>>, <<"-", "l", "a", "t", "e", "s", "t">>, <<".", "0">>}

\* GitHubRelease (lib.rs 58-67) and GitHubTag (lib.rs 69-72): the tag name
\* and, for a tag, prerelease = draft = FALSE.
Entries(src) ==
    IF src = "releases"
    THEN {[name |-> t, prerelease |-> f[1], draft |-> f[2]] :
            t \in RawTags, f \in {<<FALSE, FALSE>>, <<TRUE, FALSE>>, <<FALSE, TRUE>>}}
    ELSE {[name |-> t, prerelease |-> FALSE, draft |-> FALSE] : t \in RawTags}

NoVersion == [st |-> "none", version |-> <<>>, tag |-> <<>>, err |-> "none"]
Emitted(v, t) == [st |-> "ok", version |-> v, tag |-> t, err |-> "none"]
CollectErr(e) == [st |-> "err", version |-> <<>>, tag |-> <<>>, err |-> e]

IdleGitHub ==
    /\ nm_source = "idle" /\ cleaning = [trim_prefix |-> <<>>, trim_suffix |-> <<>>]
    /\ nm_fetched = [ok |-> FALSE, list |-> <<>>] /\ nm_pc = "idle"
    /\ nm_result = NoVersion

InitGitHub ==
    /\ nm_source \in {"releases", "tags", "commits"}
    /\ cleaning \in [trim_prefix : Prefixes, trim_suffix : Suffixes]
    /\ nm_fetched \in
        {[ok |-> FALSE, list |-> <<>>]}
        \cup {[ok |-> TRUE, list |-> l] : l \in SeqsUpTo(Entries(nm_source), MaxList)}
    /\ nm_source = "commits" => (~nm_fetched.ok /\ cleaning.trim_prefix = <<>>
                                   /\ cleaning.trim_suffix = <<>>)
    /\ nm_pc = "start"
    /\ nm_result = NoVersion

\* releases.into_iter().find(|r| !r.prerelease && !r.draft): its index, or 0.
FirstStable(list) ==
    IF \E k \in DOMAIN list : ~list[k].prerelease /\ ~list[k].draft
    THEN CHOOSE k \in DOMAIN list :
            /\ ~list[k].prerelease /\ ~list[k].draft
            /\ \A m \in 1..(k - 1) : list[m].prerelease \/ list[m].draft
    ELSE 0

\* github.rs 71-94.
CollectFromReleases ==
    /\ nm_pc = "start"
    /\ nm_source = "releases"
    /\ nm_result' =
        IF ~nm_fetched.ok THEN CollectErr("fetch")
        ELSE IF FirstStable(nm_fetched.list) = 0 THEN CollectErr("NotFound")
        ELSE LET latest_release == nm_fetched.list[FirstStable(nm_fetched.list)]
             IN Emitted(clean_version(latest_release.name), latest_release.name)
    /\ nm_pc' = "done"
    /\ UNCHANGED <<nm_source, cleaning, nm_fetched>>
    /\ UNCHANGED notGitHub

\* github.rs 104-111: the indices of the tags that parse, after the leading
\* 'v' is trimmed, as a version without pre-release.
StableTags(list) ==
    {k \in DOMAIN list :
        /\ IsSemver(TrimStartV(list[k].name))
        /\ VersionOf(TrimStartV(list[k].name)).pre = <<>>}

\* github.rs 112: Iterator::max_by, which returns the last of several maxima.
MaxBy(list, idx) ==
    CHOOSE k \in idx :
        \A m \in idx \ {k} :
            LET vk == VersionOf(TrimStartV(list[k].name))
                vm == VersionOf(TrimStartV(list[m].name))
            IN VersionLess(vm, vk) \/ (~VersionLess(vk, vm) /\ m < k)

\* github.rs 96-139.
CollectFromTags ==
    /\ nm_pc = "start"
    /\ nm_source = "tags"
    /\ nm_result' =
        IF ~nm_fetched.ok THEN CollectErr("fetch")
        ELSE IF nm_fetched.list = <<>> THEN CollectErr("NotFound")
        ELSE IF StableTags(nm_fetched.list) = {} THEN CollectErr("Other(No stable tags found)")
        ELSE LET latest_tag == nm_fetched.list[MaxBy(nm_fetched.list, StableTags(nm_fetched.list))]
             IN Emitted(clean_version(latest_tag.name), latest_tag.name)
    /\ nm_pc' = "done"
    /\ UNCHANGED <<nm_source, cleaning, nm_fetched>>
    /\ UNCHANGED notGitHub

\* github.rs 56-67: any other source.
CollectUnsupported ==
    /\ nm_pc = "start"
    /\ nm_source \notin {"releases", "tags"}
    /\ nm_result' = CollectErr("Other(Unsupported GitHub source)")
    /\ nm_pc' = "done"
    /\ UNCHANGED <<nm_source, cleaning, nm_fetched>>
    /\ UNCHANGED notGitHub

NextGitHub ==
    \/ CollectFromReleases
    \/ CollectFromTags
    \/ CollectUnsupported

(***************************************************************************)
(* The store (versionwatch-db/src/lib.rs).  A table is the sequence of its *)
(* rows in insertion order.                                                *)
(***************************************************************************)
ProductNames == {"node", "go"}

\* ProductCycle (product_cycle.rs): name, release_date, eol_date, lts; 0
\* stands for a date that is None.
CyclePool ==
    [name : {"20", "22"}, release_date : {0}, eol_date : {0}, lts : BOOLEAN]

NoTables == [products |-> <<>>, cycles |-> <<>>]
NoCall == [op |-> "none", args |-> <<>>, ret |-> "none", at |-> 0]

\* lib.rs 22-37: INSERT INTO products (name, display_name) VALUES ($1, $1)
\* ON CONFLICT (name) DO UPDATE SET name = EXCLUDED.name.
upsert_product(tbl, name) ==
    IF \E k \in DOMAIN tbl : tbl[k].name = name
    THEN [k \in DOMAIN tbl |->
            IF tbl[k].name = name THEN [tbl[k] EXCEPT !.name = name] ELSE tbl[k]]
    ELSE Append(tbl, [id |-> Len(tbl) + 1, name |-> name, display_name |-> name])

\* The row an INSERT INTO cycles adds; updated_at takes the column default.
CycleRow(product_id, cycle, now) ==
    [product_id |-> product_id, name |-> cycle.name,
     release_date |-> cycle.release_date, eol_date |-> cycle.eol_date,
     lts |-> cycle.lts, updated_at |-> now]

\* lib.rs 39-61 without the ON CONFLICT clause.
upsert_cycle_insert_only(tbl, product_id, cycle, now) ==
    Append(tbl, CycleRow(product_id, cycle, now))

\* lib.rs 39-61: INSERT INTO cycles ... ON CONFLICT (product_id, name) DO
\* UPDATE SET release_date, eol_date, lts = EXCLUDED..., updated_at = NOW().
upsert_cycle(tbl, product_id, cycle, now) ==
    IF \E k \in DOMAIN tbl : tbl[k].product_id = product_id /\ tbl[k].name = cycle.name
    THEN [k \in DOMAIN tbl |->
            IF tbl[k].product_id = product_id /\ tbl[k].name = cycle.name
            THEN [tbl[k] EXCEPT !.release_date = cycle.release_date,
                                !.eol_date = cycle.eol_date,
                                !.lts = cycle.lts,
                                !.updated_at = now]
            ELSE tbl[k]]
    ELSE Append(tbl, CycleRow(product_id, cycle, now))

IdleDb ==
    /\ products = <<>> /\ cycles = <<>> /\ db_now = 0
    /\ db_call = NoCall /\ db_once = NoTables /\ db_repeat = FALSE
    /\ db_calls = MaxCalls

InitDb ==
    /\ products = <<>> /\ cycles = <<>> /\ db_now = 0
    /\ db_call = NoCall /\ db_once = NoTables /\ db_repeat = FALSE
    /\ db_calls = 0

\* What every call records: the call, the tables before it, and whether it
\* repeats the successful call before it.
Called(op, args, ret) ==
    /\ db_call' = [op |-> op, args |-> args, ret |-> ret, at |-> db_now]
    /\ db_once' = [products |-> products, cycles |-> cycles]
    /\ db_repeat' = (/\ ret = "ok" /\ db_call.ret = "ok"
                     /\ db_call.op = op /\ db_call.args = args)
    /\ db_calls < MaxCalls
    /\ db_calls' = db_calls + 1

\* lib.rs 22-37: the query succeeds, or fails and leaves the tables alone.
UpsertProduct ==
    /\ \E name \in ProductNames :
        \/ /\ products' = upsert_product(products, name)
           /\ Called("upsert_product", <<name>>, "ok")
        \/ /\ UNCHANGED products
           /\ Called("upsert_product", <<name>>, "err")
    /\ UNCHANGED <<cycles, db_now>>
    /\ UNCHANGED notDb

\* lib.rs 39-61, with a product_id an upsert_product returned.
UpsertCycle ==
    /\ \E r \in Range(products), cycle \in CyclePool :
        \/ /\ cycles' = upsert_cycle(cycles, r.id, cycle, db_now)
           /\ Called("upsert_cycle", <<r.id, cycle>>, "ok")
        \/ /\ UNCHANGED cycles
           /\ Called("upsert_cycle", <<r.id, cycle>>, "err")
    /\ UNCHANGED <<products, db_now>>
    /\ UNCHANGED notDb

\* Time passes between two calls.
Tick ==
    /\ db_now < MaxClock
    /\ db_now' = db_now + 1
    /\ UNCHANGED <<products, cycles, db_call, db_once, db_repeat, db_calls>>
    /\ UNCHANGED notDb

NextDb ==
    \/ UpsertProduct
    \/ UpsertCycle
    \/ Tick

(***************************************************************************)
(* One collect() of the Apache collector (apache.rs 29-113).               *)
(***************************************************************************)
NoCollect == [st |-> "none", df |-> NoDf, err |-> "none"]
CollectOk(df) == [st |-> "ok", df |-> df, err |-> "none"]
CollectFailed(e) == [st |-> "err", df |-> NoDf, err |-> e]

IdleApache == ap_body = <<>> /\ ap_pc = "idle" /\ ap_result = NoCollect

InitApache == ap_body \in ApacheBodies /\ ap_pc = "start" /\ ap_result = NoCollect

\* apache.rs 30-49: the request, the status check and the reading of the body.
ApacheFetch ==
    /\ ap_pc = "start"
    /\ \/ /\ ap_pc' = "done"
          /\ ap_result' = CollectFailed("Other(Failed to fetch Apache download page)")
       \/ /\ ap_pc' = "done"
          /\ ap_result' = CollectFailed("Other(Apache download page returned status)")
       \/ /\ ap_pc' = "done"
          /\ ap_result' = CollectFailed("Other(Failed to read Apache download page)")
       \/ /\ ap_pc' = "fetched"
          /\ UNCHANGED ap_result
    /\ UNCHANGED ap_body
    /\ UNCHANGED notApache

\* apache.rs 51-112: the captures, the grouping by branch and the frame.
ApacheBuild ==
    /\ ap_pc = "fetched"
    /\ \E df \in ApacheFramesOf(ap_body, 1) : ap_result' = CollectOk(df)
    /\ ap_pc' = "done"
    /\ UNCHANGED ap_body
    /\ UNCHANGED notApache

NextApache ==
    \/ ApacheFetch
    \/ ApacheBuild

(***************************************************************************)
(* One collect() of the Ruby collector (ruby.rs 34-86).                    *)
(***************************************************************************)
\* The tag names of the releases of the model, and the releases: a tag name
\* and the prerelease flag.
RubyTagPool ==
    {Tag("v", <<3, 3, 0>>, ""), Tag("", <<3, 3, 0>>, ""),
     Tag("v", <<3, 4, 0>>, ""), Tag("latest", <<>>, "")}
RubyReleases == [tag_name : RubyTagPool, prerelease : BOOLEAN]

\* ruby.rs 66-69: strip_prefix('v'), for the prefixes of the pool.
StripV(t) == IF t.pre = "v" THEN Tag("", t.nums, t.suf) ELSE t

\* ruby.rs 72: the first character is a digit, '0' standing for an empty
\* string.
FirstIsDigit(t) == t.pre = ""

\* ruby.rs 58-82: the loop over the releases.
RECURSIVE RubyCycles(_)
RubyCycles(rs) ==
    IF rs = <<>> THEN <<>>
    ELSE IF Head(rs).prerelease \/ ~FirstIsDigit(StripV(Head(rs).tag_name))
    THEN RubyCycles(Tail(rs))
    ELSE <<StripV(Head(rs).tag_name)>> \o RubyCycles(Tail(rs))

IdleRuby == rb_releases = <<>> /\ rb_pc = "idle" /\ rb_result = NoResult

\* A repository has one release per tag name.
DistinctTagNames(rs) ==
    \A a, b \in DOMAIN rs : rs[a].tag_name = rs[b].tag_name => a = b

InitRuby ==
    /\ rb_releases \in {rs \in SeqsUpTo(RubyReleases, MaxTags) : DistinctTagNames(rs)}
    /\ rb_pc = "start"
    /\ rb_result = NoResult

\* ruby.rs 38-85: the request, the decoding, the loop and the frame.
RubyCollect ==
    /\ rb_pc = "start"
    /\ \/ rb_result' = ErrResult("Other(Failed to fetch Ruby releases)")
       \/ rb_result' = ErrResult("Other(Failed to parse Ruby releases)")
       \/ rb_result' = OkResult(RubyCycles(rb_releases))
    /\ rb_pc' = "done"
    /\ UNCHANGED rb_releases
    /\ UNCHANGED notRuby

NextRuby == RubyCollect

(***************************************************************************)
(* The tag lookups of EclipseTemurinCollector::collect                     *)
(* (eclipse_temurin.rs 95-132): one future per version, driven by          *)
(* buffer_unordered(10).  A version is named by its place in all_versions. *)
(***************************************************************************)
\* eclipse_temurin.rs 122.
BUFFER == 10

\* A buffer that takes a future whatever the number in flight.
HasRoomAlways(n) == TRUE

\* buffer_unordered: a future is taken from the stream while fewer than
\* BUFFER are in flight.
HasRoom(n) == n < BUFFER

IdleFanOut ==
    /\ fo_versions = <<>> /\ fo_next = 0 /\ fo_inflight = {}
    /\ fo_cycles = EmptyBag /\ fo_pc = "idle" /\ fo_result = NoResult

InitFanOut ==
    /\ fo_versions \in {[k \in 1..n |-> k] : n \in 0..MaxVersions}
    /\ fo_next = 0 /\ fo_inflight = {}
    /\ fo_cycles = EmptyBag /\ fo_pc = "fanout" /\ fo_result = NoResult

\* Whether the stream still has a version and the buffer takes it.
CanStart == fo_next < Len(fo_versions) /\ HasRoom(Cardinality(fo_inflight))

\* eclipse_temurin.rs 95-104: the next version's future starts.
FanStart ==
    /\ fo_pc = "fanout"
    /\ CanStart
    /\ fo_next' = fo_next + 1
    /\ fo_inflight' = fo_inflight \cup {fo_next + 1}
    /\ UNCHANGED <<fo_versions, fo_cycles, fo_pc, fo_result>>
    /\ UNCHANGED notFanOut

\* eclipse_temurin.rs 104-120: a lookup in flight ends, with a date or
\* without, and its version's cycle is emitted.  The buffer is polled once
\* it has taken all it can.
FanComplete ==
    /\ fo_pc = "fanout"
    /\ ~CanStart
    /\ \E v \in fo_inflight :
        /\ fo_inflight' = fo_inflight \ {v}
        /\ fo_cycles' = fo_cycles (+) SetToBag({fo_versions[v]})
    /\ UNCHANGED <<fo_versions, fo_next, fo_pc, fo_result>>
    /\ UNCHANGED notFanOut

\* eclipse_temurin.rs 123-131: collect() of the stream, NotFound when no
\* cycle was emitted.
FanCollect ==
    /\ fo_pc = "fanout"
    /\ fo_next = Len(fo_versions) /\ fo_inflight = {}
    /\ fo_result' = IF fo_cycles = EmptyBag THEN ErrResult("NotFound")
                    ELSE OkResult(fo_cycles)
    /\ fo_pc' = "done"
    /\ UNCHANGED <<fo_versions, fo_next, fo_inflight, fo_cycles>>
    /\ UNCHANGED notFanOut

NextFanOut ==
    \/ FanStart
    \/ FanComplete
    \/ FanCollect

(***************************************************************************)
(* The cleaning pass of main (main.rs 116-140) on a frame of the canonical *)
(* schema whose latest_lts_version column is filled.                       *)
(***************************************************************************)
CleanNames == {"eclipse-temurin", "node"}
LtsValues ==
    {None, Some(<<"2", "1">>), Some(<<"2", "1">> \o DashLts),
     Some(<<"2", "1">> \o DotLts), Some(<<"2", "1">> \o DashLts \o DotLts)}

\* The rows of the frames of the model.
CleanInputs ==
    {[name |-> n, latest_version |-> <<"2", "1">>, latest_lts_version |-> l] :
        n \in CleanNames, l \in LtsValues}

IdleCleaning == cl_df = NoDf /\ cl_pc = "idle" /\ cl_out = NoDf

InitCleaning ==
    /\ cl_df \in {[schema |-> "canonical", rows |-> rs] :
                    rs \in UNION {[1..n -> CleanInputs] : n \in 1..MaxRows}}
    /\ cl_pc = "start"
    /\ cl_out = NoDf

\* main.rs 118-140.
Clean ==
    /\ cl_pc = "start"
    /\ cl_out' = CleanFrame(cl_df)
    /\ cl_pc' = "done"
    /\ UNCHANGED cl_df
    /\ UNCHANGED notCleaning

NextCleaning == Clean

Init == InitCycle /\ IdleFallback /\ IdlePaging /\ IdleGitHub /\ IdleDb /\ IdleApache /\ IdleRuby /\ IdleFanOut /\ IdleCleaning
Next == NextCycle
Spec == Init /\ [][Next]_vars

InitFb == IdleCycle /\ InitFallback /\ IdlePaging /\ IdleGitHub /\ IdleDb /\ IdleApache /\ IdleRuby /\ IdleFanOut /\ IdleCleaning
SpecFallback == InitFb /\ [][NextFallback]_vars

InitPg == IdleCycle /\ IdleFallback /\ InitPaging /\ IdleGitHub /\ IdleDb /\ IdleApache /\ IdleRuby /\ IdleFanOut /\ IdleCleaning
SpecPaging == InitPg /\ [][NextPaging]_vars

InitGh == IdleCycle /\ IdleFallback /\ IdlePaging /\ InitGitHub /\ IdleDb /\ IdleApache /\ IdleRuby /\ IdleFanOut /\ IdleCleaning
SpecGitHub == InitGh /\ [][NextGitHub]_vars

InitStore == IdleCycle /\ IdleFallback /\ IdlePaging /\ IdleGitHub /\ InitDb /\ IdleApache /\ IdleRuby /\ IdleFanOut /\ IdleCleaning
SpecDb == InitStore /\ [][NextDb]_vars

InitAp == IdleCycle /\ IdleFallback /\ IdlePaging /\ IdleGitHub /\ IdleDb /\ InitApache /\ IdleRuby /\ IdleFanOut /\ IdleCleaning
SpecApache == InitAp /\ [][NextApache]_vars

\* The cycle against providers that may never answer.  main and the tasks
\* are scheduled fairly by the runtime.
NextTimeout ==
    \/ NextCycle
    \/ \E j \in 1..MaxTargets : TaskHang(j)
SpecTimeout == Init /\ [][NextTimeout]_vars /\ WF_vars(NextTimeout)

InitRb ==
    /\ IdleCycle /\ IdleFallback /\ IdlePaging /\ IdleGitHub /\ IdleDb /\ IdleApache
    /\ InitRuby /\ IdleFanOut /\ IdleCleaning
SpecRuby == InitRb /\ [][NextRuby]_vars

InitFo ==
    /\ IdleCycle /\ IdleFallback /\ IdlePaging /\ IdleGitHub /\ IdleDb /\ IdleApache
    /\ IdleRuby /\ InitFanOut /\ IdleCleaning
SpecFanOut == InitFo /\ [][NextFanOut]_vars

InitCl ==
    /\ IdleCycle /\ IdleFallback /\ IdlePaging /\ IdleGitHub /\ IdleDb /\ IdleApache
    /\ IdleRuby /\ IdleFanOut /\ InitCleaning
SpecCleaning == InitCl /\ [][NextCleaning]_vars

(***************************************************************************)
(* Properties of the collection cycle.                                     *)
(***************************************************************************)
Failed == {j \in DOMAIN task : task[j].st = "err"}
Succeeded == {j \in DOMAIN task : task[j].st = "ok"}
Persisted == {upserts[k].v : k \in DOMAIN upserts}
UpsertFailed == \E k \in DOMAIN upserts : ~upserts[k].ok
ProducedBy(j) == Range(task[j].df.rows)

\* C1 (as claimed): Isolation. When a run has ended and exactly one of the
\* dispatched collect() calls failed, every record of every succeeded target
\* is in the aggregated table and was handed to upsert_version, and (no
\* upsert having failed) the failure list is exactly the failed target.
C1_Isolation ==
    (pc = "done" /\ Cardinality(Failed) = 1) =>
        /\ \A j \in Succeeded :
                ProducedBy(j) \subseteq (Range(cleaned_df.rows) \cap Persisted)
        /\ ~UpsertFailed =>
                failed_targets = <<collectors[CHOOSE j \in Failed : TRUE].name>>

\* C2: when every dispatched collect() failed, the run makes no
\* upsert_version call, writes nothing, and returns Ok.
C2_AllFailedNoOp ==
    (pc = "done" /\ collectors # <<>> /\ Failed = DOMAIN task) =>
        (upserts = <<>> /\ db = <<>> /\ exit = "ok")

C2_Witness ==
    /\ pc = "done" /\ Len(collectors) >= 2 /\ Failed = DOMAIN task
    /\ upserts = <<>> /\ exit = "ok"

Enabled == {i \in DOMAIN config : config[i].enabled}
Dispatched == {collectors[j].target : j \in DOMAIN collectors}
Recognised ==
    {i \in DOMAIN config :
        config[i].source = "github" \/ config[i].name \in LegacyNames}

\* C3 (as claimed): once the cycle has started, the set of dispatched
\* targets equals the set of enabled targets.
C3_DispatchedEqualsEnabled ==
    pc # "start" => Dispatched = Enabled

\* C3 (amended): once the cycle has started, the dispatched targets are
\* exactly the enabled targets that have a github source section or one of
\* the built-in names, each dispatched once with one task; no disabled
\* target is dispatched, and an enabled target with neither is skipped.
C3_DispatchedEqualsRecognisedEnabled ==
    pc # "start" =>
        /\ Dispatched = Enabled \cap Recognised
        /\ Cardinality(Dispatched) = Len(collectors)
        /\ DOMAIN task = DOMAIN collectors
        /\ \A j \in DOMAIN collectors :
                collectors[j].name = config[collectors[j].target].name

C3_Witness ==
    /\ pc = "await"
    /\ \E i \in DOMAIN config : ~config[i].enabled
    /\ \E i \in Enabled : i \notin Recognised
    /\ Len(collectors) >= 1
    /\ Dispatched = Enabled \cap Recognised

\* C4 (as claimed): at the end of a run the failure list is non-empty
\* exactly when some dispatched collect() failed (no upsert having failed),
\* and a run in which some collect() failed and some succeeded has merged
\* the successful sources and handed their records to upsert_version.
C4_PartialCompletion ==
    pc = "done" =>
        /\ ~UpsertFailed => ((failed_targets # <<>>) <=> (Failed # {}))
        /\ (Failed # {} /\ Succeeded # {}) =>
                \A j \in Succeeded :
                    ProducedBy(j) \subseteq (Range(cleaned_df.rows) \cap Persisted)

(***************************************************************************)
(* Properties of the provider fallback.                                    *)
(***************************************************************************)
RateLimitedOrForbidden(r) == r.type = "status" /\ r.code \in {403, 429}
TransientOrMalformed(r) == r.type \in {"neterr", "badjson"}
FbDone == fb_pc = "done"

\* The error collect() reports for a failed response of a provider.
ErrorOf(e) ==
    IF e.provider = "docker" THEN fetch_docker_tags(e.resp).err
    ELSE github_only(e.resp).err

C5_WitnessTransient ==
    /\ FbDone /\ fb_kind = "kong" /\ Len(fb_log) = 1
    /\ fb_log[1].resp.type = "neterr" /\ fb_result.st = "err"

AllFailed == \A k \in DOMAIN fb_log : fb_log[k].resp.type # "ok"

\* The cycles of the first response, in request order, that is a success
\* with a usable version; <<>> when there is none.
RECURSIVE FirstUsable(_, _)
FirstUsable(kind, log) ==
    IF log = <<>> THEN <<>>
    ELSE IF Head(log).resp.type = "ok" /\ process_tags(kind, Head(log).resp.tags) # <<>>
         THEN process_tags(kind, Head(log).resp.tags)
         ELSE FirstUsable(kind, Tail(log))

C6_WitnessSwift ==
    /\ FbDone /\ fb_kind = "swift" /\ Len(fb_log) = 3 /\ AllFailed
    /\ fb_result = OkResult(KnownSwiftVersions)

\* The secondary provider invoked directly: for MySQL and Kong
\* fetch_docker_tags on the second response; for Swift fetch_github_tags on
\* the second response, which itself switches to Docker Hub on 403 and 429.
SecondaryDirect ==
    IF fb_kind \in {"mysql", "kong"} THEN fetch_docker_tags(fb_log[2].resp)
    ELSE IF RateLimitedOrForbidden(fb_log[2].resp)
         THEN fetch_docker_tags(fb_log[3].resp)
         ELSE github_only(fb_log[2].resp)

\* The post-processing of a fetch: the cycles, NotFound when there are none.
PostProcessed(kind, f) ==
    IF ~f.ok THEN ErrResult(f.err)
    ELSE IF process_tags(kind, f.tags) = <<>> THEN ErrResult("NotFound")
    ELSE OkResult(process_tags(kind, f.tags))

PrimaryRateLimited ==
    fb_log # <<>> /\ fb_log[1].resp.type = "status" /\ fb_log[1].resp.code = 429

C7_WitnessFailure ==
    /\ FbDone /\ PrimaryRateLimited /\ fb_kind = "mysql"
    /\ Len(fb_log) = 2 /\ fb_result = ErrResult("Reqwest(decode)")

(***************************************************************************)
(* Properties of the paged fetches.                                        *)
(***************************************************************************)
\* The upstream offered more pages than the ceiling: MAX_PAGES pages were
\* served and the last of them still carried a next link.
OfferedMoreThanCeiling == Len(served) = MAX_PAGES /\ served[MAX_PAGES].next

\* C8: GitHubCollector::fetch never sends more than MAX_PAGES page requests,
\* and when the upstream offers more pages than that it returns Ok with the
\* items of the MAX_PAGES pages fetched, in order, not an error.
C8_PaginationBound ==
    pg_kind = "github" =>
        /\ pg_requests <= MAX_PAGES
        /\ (pg_pc = "done" /\ OfferedMoreThanCeiling) =>
                /\ pg_requests = MAX_PAGES
                /\ pg_result = FetchOk(ItemsServed(served))

C8_Witness ==
    /\ pg_kind = "github" /\ pg_pc = "done" /\ OfferedMoreThanCeiling
    /\ pg_requests = MAX_PAGES /\ pg_result.st = "ok"
    /\ Len(pg_result.items) >= 2

\* C9 (as claimed): every paged fetch stops after a bounded number of page
\* requests, the page ceiling, whatever the upstream answers.
C9_PagedFetchBounded == pg_requests <= MAX_PAGES

(***************************************************************************)
(* Properties of the GitHub collector.                                     *)
(***************************************************************************)
\* C10 (as claimed): whatever the cleaning rules and the tags, the version
\* the GitHub collector emits parses as a semantic version and has no
\* leading 'v'.
C10_EmittedIsSemver ==
    (nm_pc = "done" /\ nm_result.st = "ok") =>
        /\ IsSemver(nm_result.version)
        /\ (nm_result.version = <<>> \/ nm_result.version[1] # "v")

(***************************************************************************)
(* C11.  Cleaning comes before the parse.                                  *)
(***************************************************************************)
\* An entry that is a stable semantic version once it is cleaned.
CleansToStable(e) ==
    /\ ~e.prerelease /\ ~e.draft
    /\ IsSemver(clean_version(e.name))
    /\ VersionOf(clean_version(e.name)).pre = <<>>

\* C11: normalization applies prefix trim, suffix trim, leading-'v' trim and
\* only then the semantic-version parse: when every fetched entry is a stable
\* semantic version after cleaning, collect() of the releases and of the tags
\* source succeeds and emits the cleaned version of one of them.
C11_CleanThenParse ==
    (/\ nm_pc = "done"
     /\ nm_source \in {"releases", "tags"}
     /\ nm_fetched.ok
     /\ nm_fetched.list # <<>>
     /\ \A k \in DOMAIN nm_fetched.list : CleansToStable(nm_fetched.list[k]))
    => /\ nm_result.st = "ok"
       /\ \E k \in DOMAIN nm_fetched.list :
            nm_result.version = clean_version(nm_fetched.list[k].name)

(***************************************************************************)
(* C12.  The highest stable version is emitted.                            *)
(***************************************************************************)
NoCleaning == cleaning.trim_prefix = <<>> /\ cleaning.trim_suffix = <<>>

\* The entries that are stable semantic versions as listed ('v' trimmed).
StableEntries(list) ==
    {k \in DOMAIN list :
        /\ ~list[k].prerelease /\ ~list[k].draft
        /\ IsSemver(TrimStartV(list[k].name))
        /\ VersionOf(TrimStartV(list[k].name)).pre = <<>>}

\* C12: with no cleaning rule configured, when the fetched list has a stable
\* semantic version, collect() emits the highest of them, wherever it stands
\* in the list, and the entries that do not parse are discarded.
C12_HighestStable ==
    (/\ nm_pc = "done"
     /\ nm_source \in {"releases", "tags"}
     /\ NoCleaning
     /\ nm_fetched.ok
     /\ StableEntries(nm_fetched.list) # {})
    => /\ nm_result.st = "ok"
       /\ IsSemver(nm_result.version)
       /\ \A k \in StableEntries(nm_fetched.list) :
            ~VersionLess(VersionOf(nm_result.version),
                         VersionOf(TrimStartV(nm_fetched.list[k].name)))

(***************************************************************************)
(* C13.  No success without a record.                                      *)
(***************************************************************************)
\* C13: a collect() that returned Ok returned a table with at least one row
\* (a collector that finds no candidate record returns NotFound instead).
C13_OkHasRows ==
    \A j \in DOMAIN task : task[j].st = "ok" => task[j].df.rows # <<>>

(***************************************************************************)
(* C14.  What the sink is handed.                                          *)
(***************************************************************************)
\* C14: every record handed to upsert_version has a latest_version that
\* parses as a semantic version, whichever collector produced the row.
C14_PersistedIsSemver ==
    \A k \in DOMAIN upserts : IsSemver(upserts[k].v.latest_version)

(***************************************************************************)
(* C15.  Last write wins.                                                  *)
(***************************************************************************)
\* The positions of the aggregated table that hold a record called name.
EmittedAt(name) == {k \in DOMAIN cleaned_df.rows : cleaned_df.rows[k].name = name}
\* The upsert_version calls for name that succeeded.
StoredAt(name) == {k \in DOMAIN upserts : upserts[k].ok /\ upserts[k].v.name = name}
Last(S) == CHOOSE k \in S : \A m \in S : m <= k
StoredFor(name) == {db[k] : k \in {m \in DOMAIN db : db[m].name = name}}

\* C15 (as claimed): after a run, for a name emitted more than once in the
\* run, the store holds exactly one row, that of the last emitted record.
C15_LastWriteWins ==
    (pc = "done" /\ exit = "ok") =>
        \A k \in DOMAIN cleaned_df.rows :
            LET name == cleaned_df.rows[k].name
            IN Cardinality(EmittedAt(name)) > 1 =>
                StoredFor(name) = {cleaned_df.rows[Last(EmittedAt(name))]}

\* C15 (amended): the store holds at most one row per name, a row exactly for
\* the names with a successful upsert, and for such a name the row is the
\* record of the last upsert of that name that succeeded.
C15_LastSuccessfulWriteWins ==
    /\ \A a, b \in DOMAIN db : db[a].name = db[b].name => a = b
    /\ \A k \in DOMAIN db : StoredAt(db[k].name) # {}
    /\ \A k \in DOMAIN upserts :
            upserts[k].ok =>
                StoredFor(upserts[k].v.name) =
                    {upserts[Last(StoredAt(upserts[k].v.name))].v}

C15_Witness ==
    /\ pc = "done"
    /\ \E a, b \in DOMAIN upserts :
            /\ a < b /\ upserts[a].ok /\ upserts[b].ok
            /\ upserts[a].v.name = upserts[b].v.name
            /\ upserts[a].v # upserts[b].v
            /\ b = Last(StoredAt(upserts[b].v.name))
            /\ StoredFor(upserts[b].v.name) = {upserts[b].v}

(***************************************************************************)
(* C16.  Idempotence of the upserts.                                       *)
(***************************************************************************)
WithoutUpdatedAt(tbl) ==
    [k \in DOMAIN tbl |->
        [product_id |-> tbl[k].product_id, name |-> tbl[k].name,
         release_date |-> tbl[k].release_date, eol_date |-> tbl[k].eol_date,
         lts |-> tbl[k].lts]]

\* C16 (as claimed): an upsert that repeats the successful upsert before it
\* leaves both tables exactly as they were: no new row, no field changed.
C16_UpsertIdempotent ==
    db_repeat => (products = db_once.products /\ cycles = db_once.cycles)

\* C16 (amended): an upsert that repeats the successful upsert before it
\* adds no row and changes no field of any row except updated_at of the
\* cycles row it writes, which becomes the time of the repeated call.
C16_UpsertIdempotentButUpdatedAt ==
    db_repeat =>
        /\ products = db_once.products
        /\ WithoutUpdatedAt(cycles) = WithoutUpdatedAt(db_once.cycles)
        /\ \A k \in DOMAIN cycles :
                \/ cycles[k].updated_at = db_once.cycles[k].updated_at
                \/ /\ db_call.op = "upsert_cycle"
                   /\ cycles[k].product_id = db_call.args[1]
                   /\ cycles[k].name = db_call.args[2].name
                   /\ cycles[k].updated_at = db_call.at

C16_Witness ==
    /\ db_repeat
    /\ db_call.op = "upsert_cycle"
    /\ Len(cycles) >= 2
    /\ \E k \in DOMAIN cycles : cycles[k].updated_at # db_once.cycles[k].updated_at

C16_WitnessProduct ==
    /\ db_repeat /\ db_call.op = "upsert_product" /\ Len(products) >= 2

(***************************************************************************)
(* C17.  One row per record, one upsert per row.                           *)
(***************************************************************************)
\* The number of rows the successful ones of the first n tasks returned.
RECURSIVE RowsProduced(_)
RowsProduced(n) ==
    IF n = 0 THEN 0
    ELSE RowsProduced(n - 1)
         + (IF task[n].st = "ok" THEN Len(task[n].df.rows) ELSE 0)

\* C17: at the end of a run in which some source succeeded, the aggregated
\* table has as many rows as the successful sources produced in total, and
\* upsert_version was called exactly once per row of it.
C17_RowAndUpsertCounts ==
    (pc = "done" /\ Succeeded # {}) =>
        /\ Len(cleaned_df.rows) = RowsProduced(Len(task))
        /\ Len(upserts) = Len(cleaned_df.rows)
        /\ \A k \in DOMAIN upserts : upserts[k].v = cleaned_df.rows[k]

(***************************************************************************)
(* C18.  One schema for every source.                                      *)
(***************************************************************************)
\* C18: all tables returned by successful sources have the same schema, and
\* a run in which some source succeeded is not aborted by the union.
C18_SameSchemaUnionSucceeds ==
    /\ \A i, j \in Succeeded : task[i].df.schema = task[j].df.schema
    /\ (pc = "done" /\ Succeeded # {}) => exit = "ok"

(***************************************************************************)
(* C19.  The cycle timeout.                                                *)
(***************************************************************************)
\* C19: a cycle reaches a terminal state even when the collect() of one unit
\* never returns (the cycle timeout cancels the unit and records it failed).
C19_CycleTerminates == <>(pc = "done")

(***************************************************************************)
(* C20.  Classification of 403 and 429.                                    *)
(***************************************************************************)
\* The errors of the variants that mean "rate limited" or "forbidden"; the
\* Error enum (lib.rs 28-56) has RateLimited and no Forbidden variant.
RetryableErrors == {"RateLimited(GitHub API rate limit exceeded)"}

\* C20: a fetch that ended on an HTTP 403 or 429 response returned an error
\* of the Forbidden or RateLimited kind, never a generic one.
C20_QuotaStatusClassified ==
    (pg_pc = "done" /\ pg_status \in {403, 429}) =>
        (pg_result.st = "err" /\ pg_result.err \in RetryableErrors)

(***************************************************************************)
(* C21.  The wait time of a rate-limited response.                         *)
(***************************************************************************)
\* C21: a fetch that ended on a 403 or 429 response carrying
\* x-ratelimit-remaining: 0 and an x-ratelimit-reset header returned the
\* RateLimited error, with the wait time taken from the reset header.
C21_RateLimitHeadersSurfaced ==
    (/\ pg_pc = "done"
     /\ pg_status \in {403, 429}
     /\ pg_hdr.remaining = "0"
     /\ pg_hdr.reset # NoWait)
    => /\ pg_result.st = "err"
       /\ pg_result.err \in RetryableErrors
       /\ pg_result.wait = pg_hdr.reset

(***************************************************************************)
(* C22.  No retry within a cycle.                                          *)
(***************************************************************************)
\* C22: in one cycle collect() is invoked at most once per dispatched target
\* at any moment, and exactly once for every task that has a result,
\* whatever the result; at the end of the run that is every target.
C22_NoRetry ==
    /\ \A j \in DOMAIN calls : calls[j] <= 1
    /\ \A j \in DOMAIN task : task[j].st \in {"ok", "err"} => calls[j] = 1
    /\ pc \in {"persist", "done"} => \A j \in DOMAIN calls : calls[j] = 1

C22_Witness ==
    /\ pc = "done"
    /\ Len(collectors) >= 2
    /\ Failed # {} /\ Succeeded # {}
    /\ \A j \in DOMAIN calls : calls[j] = 1

(***************************************************************************)
(* C23.  When the paged fetch stops.                                       *)
(***************************************************************************)
\* C23: GitHubCollector::fetch sends no page request after a page that was
\* empty (even one that carried a next link), none after a page without a
\* next link, and none after the MAX_PAGES-th.
C23_StopConditions ==
    pg_kind = "github" =>
        /\ pg_requests <= MAX_PAGES
        /\ \A k \in DOMAIN served :
                (served[k].n = 0 \/ ~served[k].next) => pg_requests <= k

(***************************************************************************)
(* C24.  One row per branch, with the highest patch.                       *)
(***************************************************************************)
\* The (major, minor) pairs from 2.x on that the page lists, and the highest
\* patch listed for such a pair.
BranchesSeen == {<<v[1], v[2]>> : v \in {w \in Range(ap_body) : w[1] >= 2}}
MaxPatchSeen(b) ==
    LET ps == {v[3] : v \in {w \in Range(ap_body) : w[1] = b[1] /\ w[2] = b[2]}}
    IN CHOOSE p \in ps : \A q \in ps : q <= p

\* C24: the table the Apache collector returns has exactly one row per
\* (major, minor) pair with major >= 2 seen on the page, and the row's
\* version is major.minor.P with P the highest patch seen for the pair.
C24_OneRowPerBranch ==
    (ap_pc = "done" /\ ap_result.st = "ok") =>
        LET rows == ap_result.df.rows
        IN /\ Len(rows) = Cardinality(BranchesSeen)
           /\ \A b \in BranchesSeen :
                \E k \in DOMAIN rows :
                    rows[k].latest_version =
                        FormatVersion(<<b[1], b[2], MaxPatchSeen(b)>>)

C24_Witness ==
    /\ ap_pc = "done" /\ ap_result.st = "ok"
    /\ \E a, b \in DOMAIN ap_body :
            /\ ap_body[a][1] = ap_body[b][1] /\ ap_body[a][2] = ap_body[b][2]
            /\ ap_body[a][3] < ap_body[b][3]
    /\ Len(ap_result.df.rows) = 1
    /\ ap_result.df.rows[1].latest_version = <<"2", ".", "4", ".", "5", "9">>

(***************************************************************************)
(* C25.  No two records of one result set share a version.                 *)
(***************************************************************************)
\* C25: the records a collector emits for one fetch have pairwise different
\* version strings: tags that normalize to the same version give one record.
C25_NoDuplicateVersions ==
    (rb_pc = "done" /\ rb_result.st = "ok") =>
        \A a, b \in DOMAIN rb_result.cycles :
            rb_result.cycles[a] = rb_result.cycles[b] => a = b

(***************************************************************************)
(* C26.  At most 10 lookups in flight, one record per version.             *)
(***************************************************************************)
\* C26: while the tag lookups of a source run, no more than 10 of them are
\* in flight at any moment, and when they are over every version observed
\* has exactly one emitted record and no other record is emitted.
C26_BoundedFanOut ==
    /\ Cardinality(fo_inflight) <= 10
    /\ (fo_pc = "done" /\ fo_versions # <<>>) =>
            /\ fo_result.st = "ok"
            /\ \A k \in DOMAIN fo_versions :
                    CopiesIn(fo_versions[k], fo_result.cycles) = 1
            /\ BagToSet(fo_result.cycles) \subseteq Range(fo_versions)

C26_Witness ==
    /\ fo_pc = "fanout"
    /\ Cardinality(fo_inflight) = 10
    /\ fo_next < Len(fo_versions)
    /\ fo_cycles = EmptyBag

(***************************************************************************)
(* C27.  The cleaning pass and the suffix of latest_lts_version.           *)
(***************************************************************************)
\* n copies of a string, one after the other.
RECURSIVE Rep(_, _)
Rep(str, n) == IF n = 0 THEN <<>> ELSE str \o Rep(str, n - 1)

\* out is what is left of a string once its trailing "-LTS" and then its
\* trailing ".LTS" are removed.
Stripped(in, out) ==
    /\ ~EndsWith(out, DotLts)
    /\ \E a, b \in 0..Len(in) :
        /\ in = out \o Rep(DotLts, b) \o Rep(DashLts, a)
        /\ b = 0 => ~EndsWith(out, DashLts)

HasLtsSuffix(v) == v # None /\ (EndsWith(v[1], DashLts) \/ EndsWith(v[1], DotLts))

FailedUpsertNames ==
    LET failed == SelectSeq(upserts, LAMBDA u : ~u.ok)
    IN [k \in DOMAIN failed |-> failed[k].v.name]

\* C28: when a cycle that reached the persistence phase is over, every row
\* of the aggregated table has had one upsert attempt, in the order of the
\* rows and whether or not an earlier upsert failed, and the failure list
\* ends with the names of the records whose upsert failed.
C28_EveryRowAttempted ==
    (pc = "done" /\ cleaned_df # NoDf) =>
        /\ Len(upserts) = Len(cleaned_df.rows)
        /\ \A k \in DOMAIN upserts : upserts[k].v = cleaned_df.rows[k]
        /\ Len(FailedUpsertNames) <= Len(failed_targets)
        /\ SubSeq(failed_targets,
                  Len(failed_targets) - Len(FailedUpsertNames) + 1,
                  Len(failed_targets)) = FailedUpsertNames

C28_Witness ==
    /\ pc = "done" /\ cleaned_df # NoDf
    /\ Len(upserts) = 2
    /\ ~upserts[1].ok /\ upserts[2].ok
    /\ failed_targets = <<upserts[1].v.name>>

(***************************************************************************)
(* C29.  The Swift collector never fails.                                  *)
(***************************************************************************)
\* C29: whatever Docker Hub and GitHub answer, SwiftCollector.collect never
\* holds or returns an error, and what it returns is a successful table with
\* at least one row.
C29_SwiftNeverFails ==
    fb_kind = "swift" =>
        /\ fb_result.st # "err"
        /\ FbDone => (fb_result.st = "ok" /\ fb_result.cycles # <<>>)

C29_Witness ==
    /\ FbDone /\ fb_kind = "swift" /\ Len(fb_log) = 2
    /\ fb_log[1].resp.type = "ok" /\ process_tags("swift", fb_log[1].resp.tags) = <<>>
    /\ fb_log[2].resp.type = "neterr"
    /\ fb_result.st = "ok" /\ Len(fb_result.cycles) = 31

(***************************************************************************)
(* C30.  A failed page request loses the pages before it.                  *)
(***************************************************************************)
\* The last page request sent got no page: the send failed, the status was
\* not a success, or the body did not decode.
LastRequestFailed == pg_requests > Len(served)

\* C30: when a page request of GitHubCollector::fetch fails, on whichever
\* page, fetch returns an error and no item, those of the pages already
\* fetched included; when fetch returns Ok it returns the items of all the
\* pages fetched, and it leaves a next link unfollowed only when MAX_PAGES
\* pages were fetched.
C30_FailureDropsAccumulated ==
    (pg_kind = "github" /\ pg_pc = "done") =>
        /\ LastRequestFailed =>
                (pg_result.st = "err" /\ pg_result.items = <<>>)
        /\ pg_result.st = "ok" =>
                /\ pg_result.items = ItemsServed(served)
                /\ served[Len(served)].next => Len(served) = MAX_PAGES

C30_Witness ==
    /\ pg_kind = "github" /\ pg_pc = "done"
    /\ Len(served) = 2 /\ pg_requests = 3
    /\ ItemsServed(served) # <<>>
    /\ pg_result.st = "err" /\ pg_result.items = <<>>


====
